---- MODULE Spec2Model ----
(***************************************************************************)
(* Truffaldino: synchronisation of MCP server entries between AI tools.    *)
(*                                                                         *)
(* The module models                                                       *)
(*   - the merge policies of SyncEngine.sync_mcp_servers (sync.py), of     *)
(*     SyncManagerV2.sync_mcp_servers (sync-manager-v2.py) and the         *)
(*     resolution handler of the MCP server (mcp_server.py);               *)
(*   - ConfigManager.save_mcp_config / save_prompt / create_backup /       *)
(*     _cleanup_old_backups and SyncEngine.remove_all_mcp_servers over an  *)
(*     abstract file system with a second-resolution clock and file        *)
(*     modification times.                                                 *)
(***************************************************************************)
EXTENDS Integers, Sequences, FiniteSets, TLC

VARIABLES
    \* ---- merge engine ----
    source,      \* source_servers  (dict name -> entry)
    target,      \* target_servers  (dict name -> entry)
    impl,        \* which implementation ran: "none", "engine", "v2", "individual"
    mode,        \* sync mode given to the implementation
    choice,      \* the answer typed at the "Choice (1-3)" prompt
    answers,     \* names answered 'y' at "Use source? (y/n)"
    resolutions, \* resolutions passed to handle_resolve_conflict_individual
    merged,      \* merged_servers
    conflicts,   \* the conflicts list built by the smart merge
    prompted,    \* TRUE iff input() was called
    \* ---- files, external tool and backups of the application operated on ----
    app,         \* id of the application the operations are applied to
    now,         \* wall clock, in seconds (the resolution of the backup names)
    mclock,      \* the latest modification time handed out to a written file
    conf,        \* the application's entry file: [exists, mtime, doc]
    ideaDir,     \* TRUE iff _find_intellij_config_dir finds an options directory
    cli,         \* entries registered in the claude CLI (name -> entry)
    wrappers,    \* wrapper scripts in ~/.claude-mcp-wrappers (name -> script)
    prompt,      \* the application's prompt file: [exists, text]
    versions,    \* backup files of the application in VERSIONS_DIR
    nBackups,    \* number of backup files written so far (history)
    tsUsed,      \* the timestamps backup files were written under (history)
    nops,        \* number of mutating operations run so far (history)
    oplog,       \* events of the latest operation, in order
    lastOp,      \* summary of the latest operation
    loaded,      \* what the latest load_mcp_config returned
    \* ---- deferred conflict resolution ----
    cdoc,        \* the conflict document as edited: its lines, by kind
    cfile,       \* the text of the conflict document: its lines, as characters
    parsed,      \* what parse_conflict_file returned (name -> choice text)
    \* ---- YAML master document ----
    master,      \* the master configuration file: [exists, doc]
    environ,     \* os.environ (variable name -> value)
    expanded     \* what load_master_config returned: [result, doc]

mergeVars == <<source, target, impl, mode, choice, answers, resolutions,
               merged, conflicts, prompted>>

fsVars == <<app, now, mclock, conf, ideaDir, cli, wrappers, prompt, versions,
            nBackups, tsUsed, nops, oplog, lastOp, loaded>>

conflictVars == <<cdoc, cfile, parsed>>

masterVars == <<master, environ, expanded>>

vars == <<source, target, impl, mode, choice, answers, resolutions,
          merged, conflicts, prompted,
          app, now, mclock, conf, ideaDir, cli, wrappers, prompt, versions,
          nBackups, tsUsed, nops, oplog, lastOp, loaded,
          cdoc, cfile, parsed,
          master, environ, expanded>>

-----------------------------------------------------------------------------
(* Entries.  A server entry is a Python dict; "env" and "cwd" are optional  *)
(* keys.  hasEnv / hasCwd say whether the key is present; an absent key     *)
(* carries the neutral value, so that record equality is dict equality.     *)

\* Argument strings are sequences of characters, so that joining, substring
\* replacement and splitting can be computed as the code computes them.
Arg1 == <<"1">>
Arg2 == <<"2">>

MkEntry(c, a, he, e, hc, w) ==
    [command |-> c, args |-> a, hasEnv |-> he, env |-> e, hasCwd |-> hc, cwd |-> w]

\* {"command": "x", "args": ["1"]}            (what the CLI loader produces)
EntryPlain == MkEntry("x", <<Arg1>>, FALSE, {}, FALSE, "")
\* {"command": "x", "args": ["1"], "env": {}} (what the XML loader produces)
EntryEmptyEnv == MkEntry("x", <<Arg1>>, TRUE, {}, FALSE, "")
\* {"command": "x", "args": ["1"], "env": {"API_KEY": "k"}}
EntryWithEnv == MkEntry("x", <<Arg1>>, TRUE, {<<"API_KEY", "k">>}, FALSE, "")
\* {"command": "x", "args": ["1"], "cwd": "/w"}
EntryWithCwd == MkEntry("x", <<Arg1>>, FALSE, {}, TRUE, "/w")
\* {"command": "y", "args": ["2", "1"]}
EntryOther == MkEntry("y", <<Arg2, Arg1>>, FALSE, {}, FALSE, "")

Entries == {EntryPlain, EntryEmptyEnv, EntryWithEnv, EntryWithCwd, EntryOther}

ServerNames == {"a", "b"}

\* iteration order of a dict's items
NameOrder == <<"a", "b">>

Collections == UNION {[S -> Entries] : S \in SUBSET ServerNames}

EmptyDict == [n \in {} |-> EntryPlain]

Modes == {"replace", "merge", "smart"}
Choices == {"1", "2", "3"}
ResolutionChoices == {"source", "target"}
ResolutionSets == UNION {[S -> ResolutionChoices] : S \in SUBSET ServerNames}

\* keys of d in iteration order
Keys(d) == SelectSeq(NameOrder, LAMBDA n : n \in DOMAIN d)

\* set of the elements of a sequence
Range(s) == {s[i] : i \in 1..Len(s)}

-----------------------------------------------------------------------------
(* smart-import.py: ConfigDetector._configs_differ, the field-wise content  *)
(* comparison (absent env compares as {}, absent cwd as None).              *)
_configs_differ(config1, config2) ==
    IF config1.command # config2.command THEN TRUE
    ELSE IF config1.args # config2.args THEN TRUE
    ELSE IF config1.env # config2.env THEN TRUE
    ELSE IF <<config1.hasCwd, config1.cwd>> # <<config2.hasCwd, config2.cwd>> THEN TRUE
    ELSE FALSE

\* {**d1, **d2}
DictUpdate(d1, d2) ==
    [n \in DOMAIN d1 \cup DOMAIN d2 |-> IF n \in DOMAIN d2 THEN d2[n] ELSE d1[n]]

\* d with d[n] = e
DictSet(d, n, e) ==
    [m \in DOMAIN d \cup {n} |-> IF m = n THEN e ELSE d[m]]

-----------------------------------------------------------------------------
(* sync.py: SyncEngine._smart_merge                                         *)

\* the first loop: the conflicts list, in source iteration order
SmartConflicts(src, tgt) ==
    SelectSeq(Keys(src), LAMBDA n : n \in DOMAIN tgt /\ src[n] # tgt[n])

\* variant of SmartAdditions that drops the else branch (no entry is added)
SmartAdditions_NoAdd(src, tgt) == tgt

\* the first loop: merged = target.copy(), plus source entries absent from target
SmartAdditions(src, tgt) ==
    [n \in DOMAIN tgt \cup DOMAIN src |-> IF n \in DOMAIN tgt THEN tgt[n] ELSE src[n]]

\* the second part: apply the typed choice to the conflicts
_smart_merge(src, tgt, ch, ans) ==
    LET cs == SmartConflicts(src, tgt)
        m0 == SmartAdditions(src, tgt)
    IN  IF cs = <<>> THEN m0
        ELSE IF ch = "2"
             THEN [n \in DOMAIN m0 |-> IF n \in Range(cs) THEN src[n] ELSE m0[n]]
        ELSE IF ch = "3"
             THEN [n \in DOMAIN m0 |->
                      IF n \in Range(cs) /\ n \in ans THEN src[n] ELSE m0[n]]
        ELSE m0

\* sync.py: SyncEngine.sync_mcp_servers, "Apply sync mode"
EngineMergeMode(src, tgt) == DictUpdate(tgt, src)

\* variant of EngineApplyMode whose replace branch keeps the target's other entries
EngineApplyMode_ReplaceKeeps(src, tgt, md, ch, ans) ==
    IF md = "replace" THEN DictUpdate(tgt, src)
    ELSE IF md = "merge" THEN EngineMergeMode(src, tgt)
    ELSE _smart_merge(src, tgt, ch, ans)

EngineApplyMode(src, tgt, md, ch, ans) ==
    IF md = "replace" THEN src
    ELSE IF md = "merge" THEN EngineMergeMode(src, tgt)
    ELSE _smart_merge(src, tgt, ch, ans)

-----------------------------------------------------------------------------
(* sync-manager-v2.py: SyncManagerV2.sync_mcp_servers, on the mcpServers    *)
(* sub-objects of the two documents.                                        *)

V2Conflicts(src, tgt) ==
    SelectSeq(Keys(src), LAMBDA n : n \in DOMAIN tgt /\ src[n] # tgt[n])

\* "Add servers that don't exist in target"
V2AddMissing(src, tgt) ==
    [n \in DOMAIN tgt \cup DOMAIN src |-> IF n \in DOMAIN tgt THEN tgt[n] ELSE src[n]]

V2Smart(src, tgt, ch, ans) ==
    LET cs == V2Conflicts(src, tgt)
        t1 == IF cs = <<>> THEN tgt
              ELSE IF ch = "2"
                   THEN [n \in DOMAIN tgt |-> IF n \in Range(cs) THEN src[n] ELSE tgt[n]]
              ELSE IF ch = "3"
                   THEN [n \in DOMAIN tgt |->
                            IF n \in Range(cs) /\ n \in ans THEN src[n] ELSE tgt[n]]
              ELSE tgt
    IN  V2AddMissing(src, t1)

V2ApplyMode(src, tgt, md, ch, ans) ==
    IF md = "replace" THEN src
    ELSE IF md = "merge" THEN V2AddMissing(src, tgt)
    ELSE V2Smart(src, tgt, ch, ans)

-----------------------------------------------------------------------------
(* mcp_server.py: TruffaldinoMCPServer.handle_resolve_conflict_individual,  *)
(* the merged collection it saves.                                          *)

\* variant of ApplyResolutions that overwrites whatever the choice is
RECURSIVE ApplyResolutions_AnyChoice(_, _, _, _)
ApplyResolutions_AnyChoice(names, res, src, m) ==
    IF names = <<>> THEN m
    ELSE LET n == Head(names)
             m1 == IF n \in DOMAIN src THEN DictSet(m, n, src[n]) ELSE m
         IN  ApplyResolutions_AnyChoice(Tail(names), res, src, m1)

RECURSIVE ApplyResolutions(_, _, _, _)
ApplyResolutions(names, res, src, m) ==
    IF names = <<>> THEN m
    ELSE LET n == Head(names)
             m1 == IF n \in DOMAIN src /\ res[n] = "source"
                   THEN DictSet(m, n, src[n]) ELSE m
         IN  ApplyResolutions(Tail(names), res, src, m1)

ResolveIndividual(src, tgt, res) ==
    LET m1 == ApplyResolutions(Keys(res), res, src, tgt)
        add == {n \in DOMAIN src : n \notin DOMAIN tgt /\ n \notin DOMAIN res}
    IN  [n \in DOMAIN m1 \cup add |-> IF n \in add THEN src[n] ELSE m1[n]]

-----------------------------------------------------------------------------
(* Strings as character sequences: " ".join, str.replace(pat, ""), split(). *)

RECURSIVE JoinArgs(_)
JoinArgs(args) ==
    IF args = <<>> THEN <<>>
    ELSE IF Len(args) = 1 THEN Head(args)
    ELSE Head(args) \o <<" ">> \o JoinArgs(Tail(args))

StartsWith(s, pat) == Len(s) >= Len(pat) /\ SubSeq(s, 1, Len(pat)) = pat

\* s.replace(pat, ""): leftmost, non-overlapping occurrences are removed
RECURSIVE RemoveAll(_, _)
RemoveAll(s, pat) ==
    IF s = <<>> THEN <<>>
    ELSE IF StartsWith(s, pat) THEN RemoveAll(SubSeq(s, Len(pat) + 1, Len(s)), pat)
    ELSE <<Head(s)>> \o RemoveAll(Tail(s), pat)

\* s.split(): the maximal runs of non-blank characters (cur is the run being read)
RECURSIVE SplitWs(_, _)
SplitWs(s, cur) ==
    IF s = <<>> THEN (IF cur = <<>> THEN <<>> ELSE <<cur>>)
    ELSE IF Head(s) = " "
         THEN (IF cur = <<>> THEN <<>> ELSE <<cur>>) \o SplitWs(Tail(s), <<>>)
    ELSE SplitWs(Tail(s), Append(cur, Head(s)))

-----------------------------------------------------------------------------
(* config.py: the supported applications.                                   *)

Apps == {"claude_desktop", "claude_code", "cline", "cursor", "intellij"}

\* applications whose get_config_path() names a JSON file
JsonApps == {"claude_desktop", "cline", "cursor"}

\* has_prompt_support = True
PromptApps == {"cline", "cursor", "intellij"}

MAX_VERSIONS_PER_APP == 10

-----------------------------------------------------------------------------
(* Documents on disk.                                                       *)

\* a JSON document {"mcpServers": servers, **other}
JsonDoc(servers, other) ==
    [fmt |-> "json", servers |-> servers, elems |-> {}, other |-> other]

\* sync.py: _save_intellij_mcp_config builds one <server> element per entry:
\* args joined by blanks, one <env> child per variable, no cwd
XmlElems(servers) ==
    {[name |-> n,
      command |-> servers[n].command,
      args |-> JoinArgs(servers[n].args),
      env |-> IF servers[n].hasEnv THEN servers[n].env ELSE {}] : n \in DOMAIN servers}

XmlDoc(servers) ==
    [fmt |-> "xml", servers |-> EmptyDict, elems |-> XmlElems(servers), other |-> {}]

\* a file truncated by open(path, 'w') whose content was not written completely
BadDoc == [fmt |-> "bad", servers |-> EmptyDict, elems |-> {}, other |-> {}]

NoFile == [exists |-> FALSE, mtime |-> 0, doc |-> BadDoc]

-----------------------------------------------------------------------------
(* The state an operation works on, as a record ("world"): the operations   *)
(* below map a world to the set of worlds the code can leave behind.        *)

World ==
    [now |-> now, mclock |-> mclock, conf |-> conf, cli |-> cli,
     wrappers |-> wrappers, prompt |-> prompt, versions |-> versions,
     nBackups |-> nBackups, tsUsed |-> tsUsed, loaded |-> loaded,
     log |-> <<>>,           \* events of the operation so far
     added |-> {},           \* names whose `claude mcp add` succeeded
     issued |-> <<>>,        \* names `claude mcp add` was invoked for, in order
     existing |-> EmptyDict, \* existing_servers of _save_claude_code_config
     pruned |-> {},          \* names (timestamps) of the backups deleted
     backupTs |-> -1,        \* name (timestamp) of the backup written last
     backupFailed |-> FALSE, \* create_backup raised
     result |-> "none"]      \* "true", "false" or "raised"

\* the backups with the smallest modification time
Oldest(files) == {f \in files : \A g \in files : f.mtime <= g.mtime}

\* variant of KeepSets that keeps one backup more
RECURSIVE KeepSets_OneMore(_)
KeepSets_OneMore(files) ==
    IF Cardinality(files) <= MAX_VERSIONS_PER_APP + 1 THEN {files}
    ELSE UNION {KeepSets_OneMore(files \ {v}) : v \in {f \in files : \A g \in files : f.mtime <= g.mtime}}

\* sync.py: _cleanup_old_backups.  sorted(..., key=st_mtime, reverse=True)[N:]
\* is deleted; among equal modification times the order is the directory
\* listing's, which the code does not control.
RECURSIVE KeepSets(_)
KeepSets(files) ==
    IF Cardinality(files) <= MAX_VERSIONS_PER_APP THEN {files}
    ELSE UNION {KeepSets(files \ {v}) : v \in Oldest(files)}

_cleanup_old_backups(w, fails) ==
    IF fails
    THEN {[w EXCEPT !.result = "raised", !.backupFailed = TRUE]}
    ELSE {[w EXCEPT !.versions = K,
                    !.pruned = @ \cup {f.ts : f \in w.versions \ K},
                    !.log = IF K = w.versions THEN @ ELSE Append(@, "prune")] :
            K \in KeepSets(w.versions)}

\* sync.py: _load_claude_code_config as used by `... or {}` and `if config:`
\* (None and {} are both falsy): the listed entries, or {} when list fails
ListOrEmpty(w, listOk) == IF listOk THEN w.cli ELSE EmptyDict

\* sync.py: ConfigManager.create_backup.
\*   adv    - seconds elapsed before datetime.now() is read
\*   bfail  - "none", "copy" (the copy / dump raises), "cleanup" (pruning raises)
\*   listOk - exit status of `claude mcp list`
create_backup(w, adv, bfail, listOk) ==
    LET w0 == [w EXCEPT !.now = @ + adv]
        isCli == app = "claude_code"
        config == ListOrEmpty(w0, listOk)
        doBackup == IF isCli THEN DOMAIN config # {}
                    ELSE app \in JsonApps /\ w0.conf.exists
        file == [ts |-> w0.now,
                 mtime |-> IF isCli THEN w0.mclock + 1 ELSE w0.conf.mtime,
                 doc |-> IF isCli THEN JsonDoc(config, {}) ELSE w0.conf.doc]
        w1 == [w0 EXCEPT !.versions = {f \in @ : f.ts # w0.now} \cup {file},
                         !.mclock = IF isCli THEN @ + 1 ELSE @,
                         !.nBackups = @ + 1,
                         !.tsUsed = @ \cup {w0.now},
                         !.backupTs = w0.now,
                         !.log = Append(@, "backup")]
    IN  IF ~doBackup THEN {w0}
        ELSE IF bfail = "copy"
             THEN {[w0 EXCEPT !.result = "raised", !.backupFailed = TRUE]}
        ELSE _cleanup_old_backups(w1, bfail = "cleanup")

\* the write of a document: open(path, 'w') then dump.
\*   wfail - "none", "open" (open raises, file untouched),
\*           "dump" (the file was truncated, the content is incomplete)
WriteConf(w, doc, wfail) ==
    IF wfail = "open" THEN [w EXCEPT !.result = "false"]
    ELSE [w EXCEPT !.conf = [exists |-> TRUE, mtime |-> w.mclock + 1,
                              doc |-> IF wfail = "dump" THEN BadDoc ELSE doc],
                   !.mclock = @ + 1,
                   !.log = Append(@, IF w.conf.exists THEN "overwrite" ELSE "create"),
                   !.result = IF wfail = "dump" THEN "false" ELSE "true"]

\* variant of SaveJson that starts from an empty document
SaveJson_FreshDocument(w, servers, wfail) ==
    WriteConf(w, JsonDoc(servers, {}), wfail)

\* sync.py: save_mcp_config, generic branch, and _save_cline_mcp_config:
\* the existing document is re-read (a malformed one counts as {}), its
\* mcpServers key is replaced and the document is written back
SaveJson(w, servers, wfail) ==
    LET config == IF w.conf.exists /\ w.conf.doc.fmt = "json" THEN w.conf.doc.other ELSE {}
    IN  WriteConf(w, JsonDoc(servers, config), wfail)

\* sync.py: _save_intellij_mcp_config
_save_intellij_mcp_config(w, servers, wfail) ==
    IF ~ideaDir THEN [w EXCEPT !.result = "false"]
    ELSE WriteConf(w, XmlDoc(servers), wfail)

-----------------------------------------------------------------------------
(* sync.py: the adapter of the CLI-managed application (claude_code).       *)

ArgDashY == <<"-", "y">>
ArgDashM == <<"-", "m">>
PatWithFastmcp ==
    <<"-", "-", "w", "i", "t", "h", " ", "f", "a", "s", "t", "m", "c", "p">>

\* sync.py: _clean_args
_clean_args(args) ==
    IF args = <<>> THEN <<>>
    ELSE SplitWs(RemoveAll(RemoveAll(JoinArgs(args), ArgDashY), PatWithFastmcp), <<>>)

\* the (command, set(args), env) comparison of _find_duplicates and
\* _server_exists_in_target
SameIdentity(c1, c2) ==
    /\ c1.command = c2.command
    /\ Range(c1.args) = Range(c2.args)
    /\ c1.env = c2.env

\* the first name of `names` whose existing entry has the identity of config
RECURSIVE FirstIdentical(_, _, _)
FirstIdentical(names, existing, config) ==
    IF names = <<>> THEN <<>>
    ELSE IF SameIdentity(config, existing[Head(names)]) THEN <<Head(names)>>
    ELSE FirstIdentical(Tail(names), existing, config)

\* sync.py: _find_duplicates (the list it returns, in order)
RECURSIVE FindDuplicatesFrom(_, _, _)
FindDuplicatesFrom(names, existing, new_servers) ==
    IF names = <<>> THEN <<>>
    ELSE LET new_name == Head(names)
             found == IF new_name \in DOMAIN existing THEN <<new_name>>
                      ELSE FirstIdentical(Keys(existing), existing, new_servers[new_name])
         IN  found \o FindDuplicatesFrom(Tail(names), existing, new_servers)

_find_duplicates(existing, new_servers) ==
    FindDuplicatesFrom(Keys(new_servers), existing, new_servers)

\* sync.py: _server_exists_in_target
_server_exists_in_target(server_name, config, existing, duplicates) ==
    IF server_name \in Range(duplicates) THEN FALSE
    ELSE IF server_name \in DOMAIN existing THEN TRUE
    ELSE \E n \in DOMAIN existing :
            n \notin Range(duplicates) /\ SameIdentity(config, existing[n])

\* str(wrapper_dir / f"{server_name}.sh")
WrapperPath(server_name) == "~/.claude-mcp-wrappers/" \o server_name \o ".sh"

\* the entry `claude mcp list` shows for a registered command line
Registered(command, args) == MkEntry(command, args, FALSE, {}, FALSE, "")

DictRemove(d, n) == [m \in DOMAIN d \ {n} |-> d[m]]

CmdFaults == {"ok", "fail", "timeout"}

\* the removal loop: `claude mcp remove` for every scheduled duplicate.
\* rmFault[n]: "ok", "fail" (non-zero exit) or "timeout" (subprocess.run raises
\* TimeoutExpired, caught by the method's except: return False).
RECURSIVE RemovePhase(_, _, _)
RemovePhase(names, w, rmFault) ==
    IF names = <<>> \/ w.result = "false" THEN w
    ELSE LET n == Head(names)
             w1 == IF rmFault[n] = "timeout"
                   THEN [w EXCEPT !.result = "false", !.log = Append(@, "remove_timeout")]
                   ELSE IF rmFault[n] = "fail" \/ n \notin DOMAIN w.cli
                   THEN [w EXCEPT !.log = Append(@, "remove_failed")]
                   ELSE [w EXCEPT !.cli = DictRemove(@, n), !.log = Append(@, "remove")]
         IN  RemovePhase(Tail(names), w1, rmFault)

\* variant of AddOne that registers the raw command whatever the environment
AddOne_RawCommand(server_name, config, existing, duplicates, w, addFault) ==
    IF _server_exists_in_target(server_name, config, existing, duplicates) THEN w
    ELSE IF ArgDashM \in Range(config.args) THEN w
    ELSE LET clean_args == _clean_args(config.args)
             useWrapper == config.env # {}
             w0 == IF useWrapper
                   THEN [w EXCEPT !.wrappers =
                                     DictSet(@, server_name,
                                             [exports |-> config.env,
                                              command |-> config.command,
                                              args |-> clean_args]),
                                  !.log = Append(@, "wrapper")]
                   ELSE w
             w1 == [w0 EXCEPT !.issued = Append(@, server_name)]
             entry == Registered(config.command, clean_args)
         IN  IF addFault[server_name] = "timeout"
             THEN [w1 EXCEPT !.result = "false", !.log = Append(@, "add_timeout")]
             ELSE IF server_name \in DOMAIN w1.cli
             THEN [w1 EXCEPT !.log = Append(@, "add_exists")]
             ELSE IF addFault[server_name] = "fail"
             THEN [w1 EXCEPT !.result = "false", !.log = Append(@, "add_failed")]
             ELSE [w1 EXCEPT !.cli = DictSet(@, server_name, entry),
                             !.added = @ \cup {server_name},
                             !.log = Append(@, "add")]

\* one iteration of the addition loop.  The external tool refuses to add a
\* name it already lists ("already exists" on stderr, non-zero exit);
\* addFault[n]: "ok", "fail" (another non-zero exit) or "timeout".
AddOne(server_name, config, existing, duplicates, w, addFault) ==
    IF _server_exists_in_target(server_name, config, existing, duplicates) THEN w
    ELSE IF ArgDashM \in Range(config.args) THEN w
    ELSE LET clean_args == _clean_args(config.args)
             useWrapper == config.env # {}
             w0 == IF useWrapper
                   THEN [w EXCEPT !.wrappers =
                                     DictSet(@, server_name,
                                             [exports |-> config.env,
                                              command |-> config.command,
                                              args |-> clean_args]),
                                  !.log = Append(@, "wrapper")]
                   ELSE w
             w1 == [w0 EXCEPT !.issued = Append(@, server_name)]
             entry == IF useWrapper THEN Registered(WrapperPath(server_name), <<>>)
                      ELSE Registered(config.command, clean_args)
         IN  IF addFault[server_name] = "timeout"
             THEN [w1 EXCEPT !.result = "false", !.log = Append(@, "add_timeout")]
             ELSE IF server_name \in DOMAIN w1.cli
             THEN [w1 EXCEPT !.log = Append(@, "add_exists")]
             ELSE IF addFault[server_name] = "fail"
             THEN [w1 EXCEPT !.result = "false", !.log = Append(@, "add_failed")]
             ELSE [w1 EXCEPT !.cli = DictSet(@, server_name, entry),
                             !.added = @ \cup {server_name},
                             !.log = Append(@, "add")]

\* variant of AddPhase that goes on after a failed add
RECURSIVE AddPhase_NoAbort(_, _, _, _, _, _)
AddPhase_NoAbort(names, mcp_servers, existing, duplicates, w, addFault) ==
    IF names = <<>> THEN w
    ELSE AddPhase_NoAbort(Tail(names), mcp_servers, existing, duplicates,
                          AddOne(Head(names), mcp_servers[Head(names)], existing,
                                 duplicates, w, addFault),
                          addFault)

\* the addition loop; `return False` and a raised timeout end it
RECURSIVE AddPhase(_, _, _, _, _, _)
AddPhase(names, mcp_servers, existing, duplicates, w, addFault) ==
    IF names = <<>> \/ w.result = "false" THEN w
    ELSE AddPhase(Tail(names), mcp_servers, existing, duplicates,
                  AddOne(Head(names), mcp_servers[Head(names)], existing,
                         duplicates, w, addFault),
                  addFault)

\* variant of _save_claude_code_config that removes every listed entry first
_save_claude_code_config_RemoveListed(w, mcp_servers, listOk, rmFault, addFault) ==
    LET existing_servers == ListOrEmpty(w, listOk)
        duplicates_to_remove == Keys(existing_servers)
        w1 == RemovePhase(duplicates_to_remove,
                          [w EXCEPT !.existing = existing_servers], rmFault)
        w2 == AddPhase(Keys(mcp_servers), mcp_servers, existing_servers,
                       duplicates_to_remove, w1, addFault)
    IN  IF w2.result = "false" THEN w2 ELSE [w2 EXCEPT !.result = "true"]

\* sync.py: _save_claude_code_config
_save_claude_code_config(w, mcp_servers, listOk, rmFault, addFault) ==
    LET existing_servers == ListOrEmpty(w, listOk)
        duplicates_to_remove == _find_duplicates(existing_servers, mcp_servers)
        w1 == RemovePhase(duplicates_to_remove,
                          [w EXCEPT !.existing = existing_servers], rmFault)
        w2 == AddPhase(Keys(mcp_servers), mcp_servers, existing_servers,
                       duplicates_to_remove, w1, addFault)
    IN  IF w2.result = "false" THEN w2 ELSE [w2 EXCEPT !.result = "true"]

-----------------------------------------------------------------------------
(* sync.py: load_mcp_config and the loaders it dispatches to.  A loader     *)
(* leaves in w.loaded what it returns: None (absent) or a collection.       *)

Absent == [absent |-> TRUE, servers |-> EmptyDict]
Loaded(servers) == [absent |-> FALSE, servers |-> servers]

\* outcomes of one `claude mcp list` invocation
ListOutcomes == {"ok", "fail", "timeout"}

\* variant of _load_claude_code_config that lists again after a failure
_load_claude_code_config_Retry(w, listRes) ==
    IF listRes = "ok"
    THEN [w EXCEPT !.log = Append(@, "list_ok"),
                   !.loaded = Loaded(w.cli), !.result = "loaded"]
    ELSE [w EXCEPT !.log = @ \o <<"list_" \o listRes, "list_ok">>,
                   !.loaded = Loaded(w.cli), !.result = "loaded"]

\* sync.py: _load_claude_code_config.  The list command is run once; a
\* non-zero exit returns None, a timeout raises TimeoutExpired which the
\* method's `except Exception` turns into None.
_load_claude_code_config(w, listRes) ==
    IF listRes = "ok"
    THEN [w EXCEPT !.log = Append(@, "list_ok"),
                   !.loaded = Loaded(w.cli), !.result = "loaded"]
    ELSE [w EXCEPT !.log = Append(@, "list_" \o listRes),
                   !.loaded = Absent, !.result = "absent"]

\* the entry the XML loader builds from one <server> element: the args
\* attribute is split at blanks, "env" is always present, there is no cwd
XmlEntry(elem) ==
    MkEntry(elem.command,
            IF elem.args = <<>> THEN <<>> ELSE SplitWs(elem.args, <<>>),
            TRUE, elem.env, FALSE, "")

\* sync.py: _load_intellij_mcp_config
_load_intellij_mcp_config(w) ==
    IF ~ideaDir \/ ~w.conf.exists
    THEN [w EXCEPT !.loaded = Absent, !.result = "absent"]
    ELSE IF w.conf.doc.fmt # "xml"
    THEN [w EXCEPT !.log = Append(@, "parse_error"),
                   !.loaded = Absent, !.result = "absent"]
    ELSE [w EXCEPT !.loaded =
                      Loaded([n \in {e.name : e \in w.conf.doc.elems} |->
                                 XmlEntry(CHOOSE e \in w.conf.doc.elems : e.name = n)]),
                   !.result = "loaded"]

\* variant of LoadJson that lets the parse error escape
LoadJson_Raises(w) ==
    IF ~w.conf.exists
    THEN [w EXCEPT !.loaded = Absent, !.result = "absent"]
    ELSE IF w.conf.doc.fmt # "json"
    THEN [w EXCEPT !.log = Append(@, "parse_error"),
                   !.loaded = Absent, !.result = "raised"]
    ELSE [w EXCEPT !.loaded = Loaded(w.conf.doc.servers), !.result = "loaded"]

\* sync.py: _load_cline_mcp_config and the generic branch of load_mcp_config
LoadJson(w) ==
    IF ~w.conf.exists
    THEN [w EXCEPT !.loaded = Absent, !.result = "absent"]
    ELSE IF w.conf.doc.fmt # "json"
    THEN [w EXCEPT !.log = Append(@, "parse_error"),
                   !.loaded = Absent, !.result = "absent"]
    ELSE [w EXCEPT !.loaded = Loaded(w.conf.doc.servers), !.result = "loaded"]

\* sync.py: ConfigManager.load_mcp_config
load_mcp_config(w, listRes) ==
    IF app = "claude_code" THEN _load_claude_code_config(w, listRes)
    ELSE IF app = "intellij" THEN _load_intellij_mcp_config(w)
    ELSE LoadJson(w)

-----------------------------------------------------------------------------
(* sync.py: the public operations, as maps from a world to the set of       *)
(* worlds the code can leave behind.                                        *)

\* inputs that only the CLI-managed application consumes
NoFaults == [n \in ServerNames |-> "ok"]
\* (at most one command of a phase is made to fail)
FaultSets ==
    IF app = "claude_code"
    THEN {f \in [ServerNames -> CmdFaults] : Cardinality({n \in ServerNames : f[n] # "ok"}) <= 1}
    ELSE {NoFaults}
ListResults == IF app = "claude_code" THEN BOOLEAN ELSE {TRUE}
\* inputs that only a file-backed application consumes
WriteFaults == IF app = "claude_code" THEN {"none"} ELSE {"none", "open", "dump"}
BackupFaults == {"none", "copy", "cleanup"}

\* the faults of one save_mcp_config call
SaveFaults ==
    [adv : 0..1, bfail : BackupFaults, listBackup : ListResults,
     wfail : WriteFaults, listSave : ListResults,
     rmFault : FaultSets, addFault : FaultSets]

\* the dispatch of save_mcp_config after the backup
SaveDispatch(w, mcp_servers, f) ==
    IF app = "claude_code"
    THEN _save_claude_code_config(w, mcp_servers, f.listSave, f.rmFault, f.addFault)
    ELSE IF app = "intellij"
    THEN _save_intellij_mcp_config(w, mcp_servers, f.wfail)
    ELSE SaveJson(w, mcp_servers, f.wfail)

\* sync.py: ConfigManager.save_mcp_config
save_mcp_config(w, mcp_servers, f) ==
    {IF w1.result = "raised" THEN w1 ELSE SaveDispatch(w1, mcp_servers, f) :
        w1 \in create_backup(w, f.adv, f.bfail, f.listBackup)}

\* the removal loop of _remove_all_claude_code_servers
RECURSIVE RemoveEach(_, _, _)
RemoveEach(names, w, rmFault) ==
    IF names = <<>> \/ w.result = "false" THEN w
    ELSE LET n == Head(names)
             w1 == IF rmFault[n] = "timeout"
                   THEN [w EXCEPT !.result = "false", !.log = Append(@, "remove_timeout")]
                   ELSE IF rmFault[n] = "fail" \/ n \notin DOMAIN w.cli
                   THEN [w EXCEPT !.log = Append(@, "remove_failed")]
                   ELSE [w EXCEPT !.cli = DictRemove(@, n), !.log = Append(@, "remove")]
         IN  RemoveEach(Tail(names), w1, rmFault)

NoWrappers == [n \in {} |-> [exports |-> {}, command |-> "", args |-> <<>>]]

\* sync.py: SyncEngine._remove_all_claude_code_servers
\*   rmtreeOk - whether shutil.rmtree of the wrapper directory succeeds
_remove_all_claude_code_servers(w, listOk, rmFault, rmtreeOk) ==
    LET existing_servers == ListOrEmpty(w, listOk)
        w0 == [w EXCEPT !.existing = existing_servers]
        w1 == RemoveEach(Keys(existing_servers), w0, rmFault)
    IN  IF DOMAIN existing_servers = {} THEN [w0 EXCEPT !.result = "true"]
        ELSE IF w1.result = "false" THEN w1
        ELSE IF w1.wrappers = NoWrappers THEN [w1 EXCEPT !.result = "true"]
        ELSE IF rmtreeOk
        THEN [w1 EXCEPT !.wrappers = NoWrappers, !.log = Append(@, "rmtree"),
                        !.result = "true"]
        ELSE [w1 EXCEPT !.log = Append(@, "rmtree_failed"), !.result = "true"]

\* sync.py: SyncEngine.remove_all_mcp_servers
\*   f1 - the faults of the operation's own create_backup and CLI calls
\*   f2 - the faults of the nested save_mcp_config call
remove_all_mcp_servers(w, f1, f2, rmtreeOk) ==
    UNION {IF w1.result = "raised" THEN {w1}
           ELSE IF app = "claude_code"
           THEN {_remove_all_claude_code_servers(w1, f1.listSave, f1.rmFault, rmtreeOk)}
           ELSE save_mcp_config(w1, EmptyDict, f2) :
              w1 \in create_backup(w, f1.adv, f1.bfail, f1.listBackup)}

\* sync.py: ConfigManager.save_prompt (and _save_intellij_prompt)
save_prompt(w, prompt_content, wfail) ==
    IF app \notin PromptApps THEN [w EXCEPT !.result = "false"]
    ELSE IF app = "intellij" /\ ~ideaDir THEN [w EXCEPT !.result = "false"]
    ELSE IF wfail = "open" THEN [w EXCEPT !.result = "false"]
    ELSE [w EXCEPT !.prompt = [exists |-> TRUE,
                               text |-> IF wfail = "dump" THEN "" ELSE prompt_content],
                   !.log = Append(@, IF w.prompt.exists THEN "overwrite" ELSE "create"),
                   !.result = IF wfail = "dump" THEN "false" ELSE "true"]

\* variant of sync_mcp_servers that does not test the source collection
sync_mcp_servers_NoSourceCheck(w, src, listRes, md, ch, ans, f) ==
    LET t == load_mcp_config(w, listRes)
        target_servers == IF t.loaded.absent THEN EmptyDict ELSE t.loaded.servers
        merged_servers == EngineApplyMode(src.servers, target_servers, md, ch, ans)
    IN  IF t.result = "raised" THEN {t}
        ELSE save_mcp_config([t EXCEPT !.log = Append(@, "save_called"),
                                       !.result = "none"],
                             merged_servers, f)

\* sync.py: SyncEngine.sync_mcp_servers.
\*   src     - what load_mcp_config(from_app) returned
\*   listRes - outcome of the list command when the target is loaded
\*   ch, ans - the answers typed at the prompts of _smart_merge
\* The worlds returned carry in `loaded` what the load of the target returned.
sync_mcp_servers(w, src, listRes, md, ch, ans, f) ==
    IF src.absent \/ DOMAIN src.servers = {}
    THEN {[w EXCEPT !.result = "false"]}
    ELSE LET t == load_mcp_config(w, listRes)
             target_servers == IF t.loaded.absent THEN EmptyDict ELSE t.loaded.servers
             merged_servers == EngineApplyMode(src.servers, target_servers, md, ch, ans)
         IN  IF t.result = "raised" THEN {t}
             ELSE save_mcp_config([t EXCEPT !.log = Append(@, "save_called"),
                                            !.result = "none"],
                                  merged_servers, f)

-----------------------------------------------------------------------------
(* Actions.                                                                 *)

NoOp == [op |-> "none", result |-> "none", hadContent |-> FALSE,
         backupFailed |-> FALSE, backupTs |-> -1, pruned |-> {},
         saved |-> EmptyDict, preCli |-> EmptyDict, preConf |-> NoFile,
         added |-> {}, issued |-> <<>>, existing |-> EmptyDict,
         afterSave |-> FALSE]

\* whether the application holds entries that a write can destroy
HasContent == IF app = "claude_code" THEN DOMAIN cli # {} ELSE conf.exists

\* the file-system variables after an operation that was handed the collection
\* `saved` and left world w behind
CommitFs(w, opName, had, saved) ==
    /\ now' = w.now
    /\ mclock' = w.mclock
    /\ conf' = w.conf
    /\ cli' = w.cli
    /\ wrappers' = w.wrappers
    /\ prompt' = w.prompt
    /\ versions' = w.versions
    /\ nBackups' = w.nBackups
    /\ tsUsed' = w.tsUsed
    /\ nops' = nops + 1
    /\ oplog' = w.log
    /\ lastOp' = [op |-> opName, result |-> w.result, hadContent |-> had,
                  backupFailed |-> w.backupFailed, backupTs |-> w.backupTs,
                  pruned |-> w.pruned,
                  saved |-> saved, preCli |-> cli, preConf |-> conf,
                  added |-> w.added, issued |-> w.issued, existing |-> w.existing,
                  afterSave |-> FALSE]
    /\ loaded' = w.loaded
    /\ UNCHANGED <<app, ideaDir>>

Commit(w, opName, had, saved) ==
    /\ CommitFs(w, opName, had, saved)
    /\ UNCHANGED mergeVars
    /\ UNCHANGED conflictVars
    /\ UNCHANGED masterVars

\* the collections handed to save_mcp_config
SaveInputs ==
    {EmptyDict,
     [n \in {"a"} |-> EntryOther],
     [n \in {"a", "b"} |-> IF n = "a" THEN EntryWithEnv ELSE EntryPlain],
     [n \in {"a", "b"} |-> EntryPlain]}

PromptInputs == {"new"}

SaveMcpConfig(inputs, faults) ==
    \E mcp_servers \in inputs, f \in faults :
        \E w \in save_mcp_config(World, mcp_servers, f) :
            Commit(w, "save_mcp_config", HasContent, mcp_servers)

RemoveAllMcpServers(faults) ==
    \E f1 \in faults :
    \E f2 \in (IF app = "claude_code" THEN {f1} ELSE faults),
       rmtreeOk \in (IF app = "claude_code" THEN BOOLEAN ELSE {TRUE}) :
        \E w \in remove_all_mcp_servers(World, f1, f2, rmtreeOk) :
            Commit(w, "remove_all_mcp_servers", HasContent, EmptyDict)

SavePrompt ==
    \E prompt_content \in PromptInputs, wfail \in {"none", "open", "dump"} :
        Commit(save_prompt(World, prompt_content, wfail), "save_prompt", prompt.exists,
               EmptyDict)

\* load_mcp_config: reads the application's collection, changes nothing
LoadMcpConfig ==
    \E listRes \in (IF app = "claude_code" THEN ListOutcomes ELSE {"ok"}) :
        LET w == load_mcp_config(World, listRes)
        IN  /\ loaded' = w.loaded
            /\ oplog' = w.log
            /\ lastOp' = [NoOp EXCEPT !.op = "load_mcp_config",
                                      !.result = w.result,
                                      !.saved = lastOp.saved,
                                      !.preCli = cli,
                                      !.preConf = conf,
                                      !.afterSave = (lastOp.op = "save_mcp_config"
                                                     /\ lastOp.result = "true")]
            /\ UNCHANGED <<app, now, mclock, conf, ideaDir, cli, wrappers, prompt,
                           versions, nBackups, tsUsed, nops>>
            /\ UNCHANGED mergeVars
            /\ UNCHANGED conflictVars
            /\ UNCHANGED masterVars

\* the prompt answers explored: keep target, use source, review (y for "a")
PromptAnswers == {<<"1", {}>>, <<"2", {}>>, <<"3", {"a"}>>}

\* SyncEngine.sync_mcp_servers with the application as the target
SyncMcpServers(sources, faults) ==
    \E src \in sources, md \in Modes, pa \in PromptAnswers, f \in faults,
       listRes \in (IF app = "claude_code" THEN ListOutcomes ELSE {"ok"}) :
        \E w \in sync_mcp_servers(World, src, listRes, md, pa[1], pa[2], f) :
            LET ran == ~(src.absent \/ DOMAIN src.servers = {})
                tgt == IF ran /\ ~w.loaded.absent THEN w.loaded.servers ELSE EmptyDict
                m   == IF ran THEN EngineApplyMode(src.servers, tgt, md, pa[1], pa[2])
                       ELSE EmptyDict
                cs  == IF ran /\ md = "smart" THEN SmartConflicts(src.servers, tgt)
                       ELSE <<>>
            IN  /\ CommitFs(w, "sync_mcp_servers", HasContent, m)
                /\ source' = src.servers
                /\ target' = tgt
                /\ impl' = "engine"
                /\ mode' = md
                /\ choice' = pa[1]
                /\ answers' = pa[2]
                /\ merged' = m
                /\ conflicts' = cs
                /\ prompted' = (cs # <<>>)
                /\ UNCHANGED resolutions
                /\ UNCHANGED conflictVars
                /\ UNCHANGED masterVars

\* mcp_server.py: handle_sync_mcps.  It calls
\* sync_engine.sync_mcp_servers(from_app, to_app, use_mcp_mode=True); the
\* method has no such parameter, the call raises TypeError before anything is
\* loaded and the handler's `except Exception` answers with an error text.
HandleSyncMcps ==
    /\ lastOp' = [NoOp EXCEPT !.op = "handle_sync_mcps", !.result = "error",
                              !.preCli = cli, !.preConf = conf]
    /\ oplog' = <<>>
    /\ UNCHANGED <<app, now, mclock, conf, ideaDir, cli, wrappers, prompt,
                   versions, nBackups, tsUsed, nops, loaded>>
    /\ UNCHANGED mergeVars
    /\ UNCHANGED conflictVars
    /\ UNCHANGED masterVars

-----------------------------------------------------------------------------
(* Initial states and specifications of the file/backup model.              *)

\* what an installed application holds before the first operation
InitialServers == [n \in {"a"} |-> EntryPlain]
InitialOther == {<<"theme", "dark">>}

InitialConfs ==
    IF app \in JsonApps
    THEN {NoFile,
          [exists |-> TRUE, mtime |-> 1, doc |-> JsonDoc(InitialServers, InitialOther)],
          [exists |-> TRUE, mtime |-> 1, doc |-> BadDoc]}
    ELSE IF app = "intellij" /\ ideaDir
    THEN {NoFile,
          [exists |-> TRUE, mtime |-> 1, doc |-> XmlDoc(InitialServers)],
          [exists |-> TRUE, mtime |-> 1, doc |-> BadDoc]}
    ELSE {NoFile}

\* the value of `loaded` before any load
NotLoaded == Absent

InitFs(apps) ==
    /\ app \in apps
    /\ now = 0
    /\ mclock = 1
    /\ ideaDir \in (IF app = "intellij" THEN BOOLEAN ELSE {FALSE})
    /\ conf \in InitialConfs
    /\ cli \in (IF app = "claude_code" THEN {EmptyDict, InitialServers} ELSE {EmptyDict})
    /\ wrappers = NoWrappers
    /\ prompt \in (IF app \in PromptApps /\ (app = "intellij" => ideaDir)
                   THEN {[exists |-> FALSE, text |-> ""], [exists |-> TRUE, text |-> "old"]}
                   ELSE {[exists |-> FALSE, text |-> ""]})
    /\ versions = {}
    /\ nBackups = 0
    /\ tsUsed = {}
    /\ nops = 0
    /\ oplog = <<>>
    /\ lastOp = NoOp
    /\ loaded = NotLoaded

\* the merge variables when no merge is run
IdleMerge ==
    /\ source = EmptyDict
    /\ target = EmptyDict
    /\ impl = "none"
    /\ mode = "none"
    /\ choice = "none"
    /\ answers = {}
    /\ resolutions = EmptyDict
    /\ merged = EmptyDict
    /\ conflicts = <<>>
    /\ prompted = FALSE

\* the conflict-document variables when no document is parsed
IdleConflict ==
    /\ cdoc = <<>>
    /\ cfile = <<>>
    /\ parsed = <<>>

\* the master-document variables when no master document is loaded
IdleMaster ==
    /\ master = [exists |-> FALSE, doc |-> [t |-> "map", v |-> <<>>]]
    /\ environ = <<>>
    /\ expanded = [result |-> "none", doc |-> [t |-> "map", v |-> <<>>]]

\* number of operations explored per behaviour of SpecSave
MaxOps == 2

InitSave == InitFs(Apps) /\ IdleMerge /\ IdleConflict /\ IdleMaster

NextSave ==
    /\ nops < MaxOps
    /\ \/ SaveMcpConfig(SaveInputs, SaveFaults)
       \/ RemoveAllMcpServers(SaveFaults)
       \/ SavePrompt

SpecSave == InitSave /\ [][NextSave]_vars

\* Codecs: the file-backed applications; a collection is saved (the write may
\* fail) and loaded back.
FileApps == JsonApps \cup {"intellij"}

\* number of mutating operations explored per behaviour of SpecCodec
MaxCodecOps == 2

\* the collections saved: the empty one, every single entry under either
\* name, and two collections of two entries
CodecInputs ==
    {c \in Collections : Cardinality(DOMAIN c) <= 1}
        \cup {[n \in {"a", "b"} |-> IF n = "a" THEN EntryWithEnv ELSE EntryWithCwd],
              [n \in {"a", "b"} |-> IF n = "a" THEN EntryOther ELSE EntryPlain]}

CodecFaults ==
    [adv : {0}, bfail : {"none"}, listBackup : {TRUE},
     wfail : {"none", "open", "dump"}, listSave : {TRUE},
     rmFault : {NoFaults}, addFault : {NoFaults}]

InitCodec ==
    /\ InitFs(FileApps)
    /\ ~prompt.exists
    /\ IdleMerge
    /\ IdleConflict
    /\ IdleMaster

NextCodec ==
    \/ nops < MaxCodecOps /\ SaveMcpConfig(CodecInputs, CodecFaults)
    \/ nops < MaxCodecOps /\ RemoveAllMcpServers(CodecFaults)
    \/ LoadMcpConfig

SpecCodec == InitCodec /\ [][NextCodec]_vars

\* Synchronisation into one target of each kind (JSON file, XML file, CLI).
SyncApps == {"cline", "intellij", "claude_code"}

\* number of synchronisations explored per behaviour of SpecSync
MaxSyncOps == 1

\* what the load of the source application returned
SyncSources ==
    {Absent, Loaded(EmptyDict),
     Loaded([n \in {"a"} |-> EntryPlain]),
     Loaded([n \in {"a"} |-> EntryOther]),
     Loaded([n \in {"b"} |-> EntryWithEnv]),
     Loaded([n \in {"a", "b"} |-> IF n = "a" THEN EntryOther ELSE EntryPlain])}

SyncFaults ==
    [adv : {0}, bfail : {"none"}, listBackup : {TRUE},
     wfail : IF app = "claude_code" THEN {"none"} ELSE {"none", "open", "dump"},
     listSave : ListResults,
     rmFault : {NoFaults},
     addFault : IF app = "claude_code"
                THEN {NoFaults, [n \in ServerNames |-> IF n = "a" THEN "fail" ELSE "ok"]}
                ELSE {NoFaults}]

InitSync ==
    /\ InitFs(SyncApps)
    /\ ~prompt.exists
    /\ IdleMerge
    /\ IdleConflict
    /\ IdleMaster

NextSync ==
    \/ nops < MaxSyncOps /\ SyncMcpServers(SyncSources, SyncFaults)
    \/ HandleSyncMcps
    \/ LoadMcpConfig

SpecSync == InitSync /\ [][NextSync]_vars

\* The CLI-managed application: saves with failing commands, and loads.

\* {"command": "npx", "args": ["-y", "1"], "env": {"API_KEY": "k"}}
EntryNpx == MkEntry("npx", <<ArgDashY, Arg1>>, TRUE, {<<"API_KEY", "k">>}, FALSE, "")
\* {"command": "uvx", "args": ["-y", "2"]}
EntryUvx == MkEntry("uvx", <<ArgDashY, Arg2>>, FALSE, {}, FALSE, "")
\* {"command": "python", "args": ["-m", "1"]}
EntryModule == MkEntry("python", <<ArgDashM, Arg1>>, FALSE, {}, FALSE, "")

CliInputs ==
    SaveInputs \cup
        {[n \in {"a"} |-> EntryPlain],
         [n \in {"a", "b"} |-> IF n = "a" THEN EntryNpx ELSE EntryUvx],
         [n \in {"a", "b"} |-> IF n = "a" THEN EntryModule ELSE EntryNpx]}

CliFaults ==
    [adv : {0}, bfail : {"none"}, listBackup : {TRUE}, wfail : {"none"},
     listSave : BOOLEAN, rmFault : FaultSets, addFault : FaultSets]

\* number of saves explored per behaviour of SpecCli
MaxCliOps == 2

InitCli ==
    /\ InitFs({"claude_code"})
    /\ IdleMerge
    /\ IdleConflict
    /\ IdleMaster

NextCli ==
    \/ nops < MaxCliOps /\ SaveMcpConfig(CliInputs, CliFaults)
    \/ LoadMcpConfig

SpecCli == InitCli /\ [][NextCli]_vars

\* Retention: one application, backed up again and again.  The saved
\* collection is fixed; the clock may or may not reach the next second between
\* two backups, the write of the configuration may fail (leaving its
\* modification time unchanged) and pruning may raise.
MaxBackups == 12

\* how many backups may fall into the second of the backup before them
MaxSameSecond == 2

\* how many writes of the configuration may succeed
MaxWrites == 2

RetentionApps == {"cline", "claude_code"}

RetentionFaults ==
    {f \in [adv : 0..1, bfail : {"none", "cleanup"}, listBackup : {TRUE},
            wfail : IF app = "claude_code" THEN {"none"} ELSE {"none", "open"},
            listSave : {TRUE}, rmFault : {NoFaults}, addFault : {NoFaults}] :
        /\ (f.adv = 0 /\ now \in tsUsed) => nBackups - Cardinality(tsUsed) < MaxSameSecond
        /\ (app # "claude_code" /\ f.wfail = "none" /\ f.bfail = "none")
               => conf.mtime <= MaxWrites
        /\ f.bfail = "cleanup" => Cardinality(versions) <= MAX_VERSIONS_PER_APP}

InitRetention ==
    /\ InitFs(RetentionApps)
    /\ IF app = "claude_code" THEN cli = InitialServers ELSE conf.exists /\ conf.doc # BadDoc
    /\ ~prompt.exists
    /\ IdleMerge
    /\ IdleConflict
    /\ IdleMaster

NextRetention ==
    /\ nBackups < MaxBackups
    /\ SaveMcpConfig({InitialServers}, RetentionFaults)

SpecRetention == InitRetention /\ [][NextRetention]_vars

-----------------------------------------------------------------------------
(* Merge specification: Init draws source and target, the actions apply one *)
(* implementation to them.                                                  *)

InitMerge ==
    /\ source \in Collections
    /\ target \in Collections
    /\ impl = "none"
    /\ mode = "none"
    /\ choice = "none"
    /\ answers = {}
    /\ resolutions = EmptyDict
    /\ merged = EmptyDict
    /\ conflicts = <<>>
    /\ prompted = FALSE
    /\ InitFs({"cline"})
    /\ conf = NoFile
    /\ ~prompt.exists
    /\ IdleConflict
    /\ IdleMaster

\* SyncEngine.sync_mcp_servers applies the mode (the prompt answers are inputs)
EngineSync ==
    /\ impl = "none"
    /\ \E md \in Modes, ch \in Choices, ans \in SUBSET ServerNames :
          /\ impl' = "engine"
          /\ mode' = md
          /\ choice' = ch
          /\ answers' = ans
          /\ merged' = EngineApplyMode(source, target, md, ch, ans)
          /\ conflicts' = IF md = "smart" THEN SmartConflicts(source, target) ELSE <<>>
          /\ prompted' = (md = "smart" /\ SmartConflicts(source, target) # <<>>)
    /\ UNCHANGED <<source, target, resolutions>>
    /\ UNCHANGED fsVars
    /\ UNCHANGED conflictVars
    /\ UNCHANGED masterVars

\* SyncManagerV2.sync_mcp_servers
V2Sync ==
    /\ impl = "none"
    /\ \E md \in Modes, ch \in Choices, ans \in SUBSET ServerNames :
          /\ impl' = "v2"
          /\ mode' = md
          /\ choice' = ch
          /\ answers' = ans
          /\ merged' = V2ApplyMode(source, target, md, ch, ans)
          /\ conflicts' = IF md = "smart" THEN V2Conflicts(source, target) ELSE <<>>
          /\ prompted' = (md = "smart" /\ V2Conflicts(source, target) # <<>>)
    /\ UNCHANGED <<source, target, resolutions>>
    /\ UNCHANGED fsVars
    /\ UNCHANGED conflictVars
    /\ UNCHANGED masterVars

\* TruffaldinoMCPServer.handle_resolve_conflict_individual
IndividualResolve ==
    /\ impl = "none"
    /\ \E res \in ResolutionSets :
          /\ impl' = "individual"
          /\ resolutions' = res
          /\ merged' = ResolveIndividual(source, target, res)
    /\ UNCHANGED <<source, target, mode, choice, answers, conflicts, prompted>>
    /\ UNCHANGED fsVars
    /\ UNCHANGED conflictVars
    /\ UNCHANGED masterVars

NextMerge == EngineSync \/ V2Sync \/ IndividualResolve

SpecMerge == InitMerge /\ [][NextMerge]_vars

-----------------------------------------------------------------------------
(* sync.py: ConflictResolver.  The conflict document is kept twice: cdoc is *)
(* the list of its lines by kind (what the author of the document means),   *)
(* cfile is its text, which is all parse_conflict_file reads.               *)

HdrPrefix == <<"#", "#", " ", "S", "e", "r", "v", "e", "r", ":">>
KeepPrefix == <<"K", "E", "E", "P", ":">>

ChoiceText(c) ==
    IF c = "source" THEN <<"s", "o", "u", "r", "c", "e">>
    ELSE <<"t", "a", "r", "g", "e", "t">>

\* the lines of a document:
\*   server    "## Server: <name>"
\*   commented "# KEEP: <choice>"      (as written by create_conflict_file)
\*   keep      "KEEP: <choice>"        (uncommented)
\*   indented  "  KEEP: <choice> "     (uncommented, with blanks around it)
\*   comment   "# Edit"                (a line of the file's heading)
\*   rule      "####"                  ("#" * 60)
\*   option    "### Option"            (the title of a dumped entry)
\*   dump      "# {"                   (first line of json.dumps(..., indent=2))
\*   json      '  "command": "x"'      (a further line of the dump)
\*   text      a separator line
LineText(l) ==
    IF l.kind = "server" THEN HdrPrefix \o <<" ", l.val>>
    ELSE IF l.kind = "commented" THEN <<"#", " ">> \o KeepPrefix \o <<" ">> \o ChoiceText(l.val)
    ELSE IF l.kind = "keep" THEN KeepPrefix \o <<" ">> \o ChoiceText(l.val)
    ELSE IF l.kind = "indented"
         THEN <<" ", " ">> \o KeepPrefix \o <<" ">> \o ChoiceText(l.val) \o <<" ">>
    ELSE IF l.kind = "comment" THEN <<"#", " ", "E", "d", "i", "t">>
    ELSE IF l.kind = "rule" THEN <<"#", "#", "#", "#">>
    ELSE IF l.kind = "option" THEN <<"#", "#", "#", " ", "O", "p", "t", "i", "o", "n">>
    ELSE IF l.kind = "dump" THEN <<"#", " ", "{">>
    ELSE IF l.kind = "json"
         THEN <<" ", " ", "\"", "c", "o", "m", "m", "a", "n", "d", "\"", ":", " ",
                "\"", "x", "\"">>
    ELSE <<"-", "-", "-">>

\* '\n'.join(content), read back line by line: every line but the last ends
\* with a newline
Render(doc) ==
    [i \in 1..Len(doc) |->
        IF i < Len(doc) THEN LineText(doc[i]) \o <<"\n">> ELSE LineText(doc[i])]

\* variant of ConflictBlock whose first directive is written uncommented
ConflictBlock_SourcePreselected(server_name) ==
    <<[kind |-> "server", val |-> server_name],
      [kind |-> "option", val |-> ""],
      [kind |-> "dump", val |-> ""],
      [kind |-> "json", val |-> ""],
      [kind |-> "text", val |-> ""],
      [kind |-> "keep", val |-> "source"],
      [kind |-> "commented", val |-> "target"],
      [kind |-> "text", val |-> ""]>>

\* sync.py: create_conflict_file, the block written for one conflict
ConflictBlock(server_name) ==
    <<[kind |-> "server", val |-> server_name],
      [kind |-> "option", val |-> ""],
      [kind |-> "dump", val |-> ""],
      [kind |-> "json", val |-> ""],
      [kind |-> "text", val |-> ""],
      [kind |-> "commented", val |-> "source"],
      [kind |-> "commented", val |-> "target"],
      [kind |-> "text", val |-> ""]>>

\* sync.py: create_conflict_file, the heading of the document
ConflictHeading == <<[kind |-> "comment", val |-> ""], [kind |-> "rule", val |-> ""]>>

RECURSIVE ConflictBlocks(_)
ConflictBlocks(names) ==
    IF names = <<>> THEN <<>>
    ELSE ConflictBlock(Head(names)) \o ConflictBlocks(Tail(names))

\* sync.py: create_conflict_file
create_conflict_file(names) == ConflictHeading \o ConflictBlocks(names)

Whitespace == {" ", "\n"}

\* str.strip()
RECURSIVE LStrip(_)
LStrip(s) ==
    IF s = <<>> THEN <<>>
    ELSE IF Head(s) \in Whitespace THEN LStrip(Tail(s)) ELSE s

RECURSIVE RStrip(_)
RStrip(s) ==
    IF s = <<>> THEN <<>>
    ELSE IF s[Len(s)] \in Whitespace THEN RStrip(SubSeq(s, 1, Len(s) - 1)) ELSE s

Strip(s) == RStrip(LStrip(s))

\* the part of s before the first occurrence of pat
RECURSIVE UpTo(_, _)
UpTo(s, pat) ==
    IF s = <<>> THEN <<>>
    ELSE IF StartsWith(s, pat) THEN <<>>
    ELSE <<Head(s)>> \o UpTo(Tail(s), pat)

\* line.split(pat)[1] for a line that starts with pat
SplitSecond(line, pat) == UpTo(SubSeq(line, Len(pat) + 1, Len(line)), pat)

\* variant of ParseLines in which the first directive of a block is kept
RECURSIVE ParseLines_FirstWins(_, _, _)
ParseLines_FirstWins(lines, current_server, res) ==
    IF lines = <<>> THEN res
    ELSE LET line == Strip(Head(lines))
         IN  IF StartsWith(line, HdrPrefix)
             THEN ParseLines_FirstWins(Tail(lines), Strip(SplitSecond(line, HdrPrefix)), res)
             ELSE IF StartsWith(line, KeepPrefix) /\ current_server # <<>>
                     /\ current_server \notin DOMAIN res
             THEN ParseLines_FirstWins(Tail(lines), current_server,
                             DictSet(res, current_server,
                                     Strip(SplitSecond(line, KeepPrefix))))
             ELSE ParseLines_FirstWins(Tail(lines), current_server, res)

\* the loop of parse_conflict_file; current_server = <<>> stands for None and
\* for the empty name, which are both falsy
RECURSIVE ParseLines(_, _, _)
ParseLines(lines, current_server, res) ==
    IF lines = <<>> THEN res
    ELSE LET line == Strip(Head(lines))
         IN  IF StartsWith(line, HdrPrefix)
             THEN ParseLines(Tail(lines), Strip(SplitSecond(line, HdrPrefix)), res)
             ELSE IF StartsWith(line, KeepPrefix) /\ current_server # <<>>
             THEN ParseLines(Tail(lines), current_server,
                             DictSet(res, current_server,
                                     Strip(SplitSecond(line, KeepPrefix))))
             ELSE ParseLines(Tail(lines), current_server, res)

\* sync.py: parse_conflict_file
parse_conflict_file(text) == ParseLines(text, <<>>, <<>>)

\* the conflict lists a document is written for
ConflictLists == {<<>>, <<"a">>, <<"b">>, <<"a", "b">>, <<"b", "a">>}

\* number of edits of the document explored per behaviour of SpecConflict
MaxEdits == 3

DirectiveKinds == {"commented", "keep", "indented"}

\* the other choice
Flip(c) == IF c = "source" THEN "target" ELSE "source"

\* s without its i-th element
RemoveAt(s, i) == SubSeq(s, 1, i - 1) \o SubSeq(s, i + 1, Len(s))

\* the summary of an operation on the conflict document
ConflictOp(opName) == [NoOp EXCEPT !.op = opName, !.result = "true"]

\* ConflictResolver.create_conflict_file writes the document: open(..., 'w')
\* truncates whatever the file held
CreateConflictFile ==
    /\ cdoc' = create_conflict_file(conflicts)
    /\ cfile' = Render(cdoc')
    /\ lastOp' = ConflictOp("create_conflict_file")
    /\ UNCHANGED <<parsed, nops>>

\* the document is edited outside the program: a directive line is
\* uncommented (with or without blanks around it), commented again, changed to
\* the other choice, or deleted
EditConflictFile ==
    /\ lastOp.op # "none"
    /\ nops < MaxEdits
    /\ \E i \in 1..Len(cdoc) :
          /\ cdoc[i].kind \in DirectiveKinds
          /\ \/ \E k \in DirectiveKinds \ {cdoc[i].kind} :
                    cdoc' = [cdoc EXCEPT ![i].kind = k]
             \/ cdoc' = [cdoc EXCEPT ![i].val = Flip(@)]
             \/ cdoc' = RemoveAt(cdoc, i)
    /\ cfile' = Render(cdoc')
    /\ nops' = nops + 1
    /\ lastOp' = ConflictOp("edit")
    /\ UNCHANGED parsed

\* ConflictResolver.parse_conflict_file reads the document
ParseConflictFile ==
    /\ lastOp.op # "none"
    /\ parsed' = parse_conflict_file(cfile)
    /\ lastOp' = ConflictOp("parse_conflict_file")
    /\ UNCHANGED <<cdoc, cfile, nops>>

InitConflict ==
    /\ InitFs({"cline"})
    /\ conf = NoFile
    /\ ~prompt.exists
    /\ IdleMerge
    /\ IdleConflict
    /\ IdleMaster

\* the conflicts found by a smart merge are an input of the resolver; a later
\* merge may find other conflicts once the document of the previous one has
\* been parsed
DetectConflicts ==
    /\ lastOp.op \in {"none", "parse_conflict_file"}
    /\ conflicts' \in ConflictLists \ {conflicts}
    /\ UNCHANGED <<cdoc, cfile, parsed, nops, lastOp>>

NextConflict ==
    /\ \/ DetectConflicts
       \/ CreateConflictFile /\ UNCHANGED conflicts
       \/ EditConflictFile /\ UNCHANGED conflicts
       \/ ParseConflictFile /\ UNCHANGED conflicts
    /\ UNCHANGED <<source, target, impl, mode, choice, answers, resolutions,
                   merged, prompted>>
    /\ UNCHANGED <<app, now, mclock, conf, ideaDir, cli, wrappers, prompt,
                   versions, nBackups, tsUsed, oplog, loaded>>
    /\ UNCHANGED masterVars

SpecConflict == InitConflict /\ [][NextConflict]_vars

-----------------------------------------------------------------------------
(* sync/sync-manager.py: SyncManager.load_master_config, the YAML master    *)
(* document and the expansion of its ${VAR} placeholders.  A node of the     *)
(* document is a string (a sequence of characters), a mapping or a list.    *)

MStr(s) == [t |-> "str", v |-> s]
MMap(f) == [t |-> "map", v |-> f]
MList(l) == [t |-> "list", v |-> l]

\* s.endswith(pat)
EndsWith(s, pat) ==
    Len(s) >= Len(pat) /\ SubSeq(s, Len(s) - Len(pat) + 1, Len(s)) = pat

\* os.environ.get(name, default)
EnvGet(env, name, default) == IF name \in DOMAIN env THEN env[name] ELSE default

\* sync-manager.py: _expand_env_vars (the document it leaves behind)
RECURSIVE _expand_env_vars(_, _)
_expand_env_vars(obj, env) ==
    IF obj.t = "map"
    THEN MMap([key \in DOMAIN obj.v |->
                 LET value == obj.v[key]
                 IN  IF /\ value.t = "str"
                        /\ StartsWith(value.v, <<"$", "{">>)
                        /\ EndsWith(value.v, <<"}">>)
                     THEN MStr(EnvGet(env, SubSeq(value.v, 3, Len(value.v) - 1), value.v))
                     ELSE _expand_env_vars(value, env)])
    ELSE IF obj.t = "list"
    THEN MList([i \in DOMAIN obj.v |-> _expand_env_vars(obj.v[i], env)])
    ELSE obj

\* the strings of the master documents: a placeholder of a set variable, a
\* placeholder of an unset one, no placeholder, a placeholder inside a longer
\* string, and two placeholders in one string
StrV == <<"$", "{", "V", "}">>
StrW == <<"$", "{", "W", "}">>
MasterStrings == {StrV, StrW, <<"x">>, <<"x", "=">> \o StrV, StrV \o StrW}

\* mcp_servers: {a: {command: c, args: [arg], env: {API_KEY: e}}}
MasterDoc(c, arg, e) ==
    MMap([k1 \in {"mcp_servers"} |->
        MMap([k2 \in {"a"} |->
            MMap([k3 \in {"command", "args", "env"} |->
                    IF k3 = "command" THEN MStr(c)
                    ELSE IF k3 = "args" THEN MList(<<MStr(arg)>>)
                    ELSE MMap([k4 \in {"API_KEY"} |-> MStr(e)])])])])

MasterDocs == {MasterDoc(c, arg, e) : c \in MasterStrings, arg \in MasterStrings,
                                       e \in MasterStrings}

NoMaster == [exists |-> FALSE, doc |-> MMap([k \in {} |-> MStr(<<>>)])]

\* the process environments: nothing set, V set, V and W set
Environs ==
    {[n \in {} |-> <<>>],
     [n \in {<<"V">>} |-> <<"k">>],
     [n \in {<<"V">>, <<"W">>} |-> IF n = <<"V">> THEN <<"k">> ELSE <<"j">>]}

NotExpanded == [result |-> "none", doc |-> NoMaster.doc]

\* SyncManager.load_master_config
LoadMasterConfig ==
    /\ expanded.result = "none"
    /\ expanded' = IF ~master.exists
                   THEN [result |-> "raised", doc |-> NoMaster.doc]
                   ELSE [result |-> "loaded",
                         doc |-> _expand_env_vars(master.doc, environ)]
    /\ UNCHANGED <<master, environ>>
    /\ UNCHANGED mergeVars
    /\ UNCHANGED fsVars
    /\ UNCHANGED conflictVars

InitMaster ==
    /\ InitFs({"cline"})
    /\ conf = NoFile
    /\ ~prompt.exists
    /\ IdleMerge
    /\ IdleConflict
    /\ master \in {NoMaster} \cup {[exists |-> TRUE, doc |-> d] : d \in MasterDocs}
    /\ environ \in Environs
    /\ expanded = NotExpanded

NextMaster == LoadMasterConfig

SpecMaster == InitMaster /\ [][NextMaster]_vars

-----------------------------------------------------------------------------
(* Properties of saves and backups (checked under SpecSave and              *)
(* SpecRetention).                                                          *)

\* events that destroy configuration the target held before
Destructive == {"overwrite", "remove"}

\* every destructive event of the latest operation has a backup event before it
BackupBeforeDestruction ==
    \A i \in 1..Len(oplog) :
        oplog[i] \in Destructive => \E j \in 1..(i - 1) : oplog[j] = "backup"

\* the latest operation ran create_backup to completion and wrote a backup
BackupCompleted ==
    /\ lastOp.op \in {"save_mcp_config", "remove_all_mcp_servers"}
    /\ lastOp.backupTs >= 0
    /\ ~lastOp.backupFailed

Min(x, y) == IF x <= y THEN x ELSE y

\* C2: every mutating operation on an application's entries (save_mcp_config,
\* remove_all_mcp_servers; JSON, XML and CLI-managed applications) creates a
\* backup of the existing configuration before the first write: existing
\* content is never overwritten or removed without an earlier backup in the
\* same operation.
C2_BackupPrecedesWrite ==
    lastOp.op \in {"save_mcp_config", "remove_all_mcp_servers"} =>
        BackupBeforeDestruction

\* C3: when the target prompt file already exists, save_prompt creates a
\* backup of it before it writes the new text.
C3_PromptBackupPrecedesWrite ==
    (lastOp.op = "save_prompt" /\ lastOp.hadContent) => BackupBeforeDestruction

\* C4: a failure while creating the backup (the copy or the pruning raising)
\* does not block the save that follows: save_mcp_config still performs the
\* write and reports its own outcome.
C4_BackupFailureDoesNotBlockSave ==
    (lastOp.op = "save_mcp_config" /\ lastOp.backupFailed) =>
        /\ lastOp.result \in {"true", "false"}
        /\ lastOp.result = "true" =>
              \E i \in 1..Len(oplog) : oplog[i] \in {"overwrite", "create", "add"}

\* C5 as stated: after N+1 sequential backups of the same application id,
\* starting from an empty backup directory, exactly N backup files remain, and
\* after every completed backup at most N remain.
C5_ExactlyNAfterNPlusOne ==
    BackupCompleted =>
        /\ Cardinality(versions) <= MAX_VERSIONS_PER_APP
        /\ nBackups = MAX_VERSIONS_PER_APP + 1 =>
              Cardinality(versions) = MAX_VERSIONS_PER_APP

\* C5 amended: after every completed backup the number of backup files of the
\* application is the smaller of N and the number of different seconds in which
\* backups were written (a backup overwrites the backup of the same second):
\* at most N always, and exactly N once backups were written in N+1 different
\* seconds.
C5_RetentionCount ==
    BackupCompleted =>
        Cardinality(versions) = Min(MAX_VERSIONS_PER_APP, Cardinality(tsUsed))

\* C5 witness: N+1 backups in N+1 different seconds have left exactly N files.
C5_Witness ==
    /\ BackupCompleted
    /\ nBackups = MAX_VERSIONS_PER_APP + 1
    /\ Cardinality(tsUsed) = MAX_VERSIONS_PER_APP + 1
    /\ Cardinality(versions) = MAX_VERSIONS_PER_APP

\* C6: after any backup followed by pruning the retained backups are the N
\* most recently created ones: the backup just created is never pruned, and a
\* backup is deleted only if at least N backups created later than it exist.
C6_RetainsMostRecent ==
    BackupCompleted =>
        /\ \E f \in versions : f.ts = lastOp.backupTs
        /\ \A p \in lastOp.pruned :
              Cardinality({f \in versions : f.ts > p}) >= MAX_VERSIONS_PER_APP

-----------------------------------------------------------------------------
(* Properties of the merge engine (checked under SpecMerge).                *)

\* names present in both collections with unequal entry dicts
ConflictingNames == {n \in DOMAIN source \cap DOMAIN target : source[n] # target[n]}

\* the resolution the caller gave for name n in the run recorded in the state
ResolutionOf(n) ==
    IF impl = "individual"
    THEN IF n \in DOMAIN resolutions THEN resolutions[n] ELSE "none"
    ELSE IF choice = "2" THEN "source"
    ELSE IF choice = "3" THEN (IF n \in answers THEN "source" ELSE "target")
    ELSE "none"

\* C1: under the 'merge' policy every name already present in target maps in
\* the merged collection to the target's own entry (a same-named source entry
\* never replaces it).
C1_MergeKeepsTargetEntries ==
    (impl \in {"engine", "v2"} /\ mode = "merge") =>
        \A n \in DOMAIN target : n \in DOMAIN merged /\ merged[n] = target[n]

\* C7: under the 'replace' policy the merged collection equals the source
\* collection exactly, whatever the target contains, and no conflict is
\* reported or prompted for.
C7_ReplaceEqualsSource ==
    (impl \in {"engine", "v2"} /\ mode = "replace") =>
        /\ merged = source
        /\ conflicts = <<>>
        /\ ~prompted

\* C7 witness: a replace ran on a target holding a name the source lacks.
C7_Witness ==
    /\ impl = "engine"
    /\ mode = "replace"
    /\ DOMAIN target \ DOMAIN source # {}
    /\ ConflictingNames # {}
    /\ merged = source

\* C8: under the 'smart' policy a conflict is registered for a name if and
\* only if the name is present in both source and target and the two entries
\* differ in content (command, ordered arguments, environment mapping, working
\* directory); equal content produces no conflict and leaves the merged entry
\* unchanged.
C8_ConflictIffContentDiffers ==
    (impl \in {"engine", "v2"} /\ mode = "smart") =>
        \A n \in ServerNames :
            /\ (n \in Range(conflicts)) <=>
                   (/\ n \in DOMAIN source
                    /\ n \in DOMAIN target
                    /\ _configs_differ(source[n], target[n]))
            /\ (/\ n \in DOMAIN source
                /\ n \in DOMAIN target
                /\ ~_configs_differ(source[n], target[n])) => merged[n] = target[n]

\* C9: for every conflicting name the merged entry after the resolutions are
\* applied is the source entry when the resolution for the name is 'source',
\* and the target entry when it is 'target' or when none is given.
C9_ResolutionApplied ==
    (impl = "individual" \/ mode = "smart") =>
        \A n \in ConflictingNames :
            /\ n \in DOMAIN merged
            /\ merged[n] = IF ResolutionOf(n) = "source" THEN source[n] ELSE target[n]

\* C9 witness: two conflicting names, one resolved to source, the other not.
C9_Witness ==
    /\ impl = "individual"
    /\ \E n, m \in ConflictingNames :
          /\ ResolutionOf(n) = "source"
          /\ ResolutionOf(m) = "target"
          /\ merged[n] = source[n]
          /\ merged[m] = target[m]

\* C10: when source and target have no name in common the 'smart' policy
\* reports zero conflicts, asks for no resolution, and its merged collection
\* equals the merged collection of the 'merge' policy on the same inputs.
C10_SmartDisjointEqualsMerge ==
    (impl \in {"engine", "v2"} /\ mode = "smart"
        /\ DOMAIN source \cap DOMAIN target = {}) =>
        /\ conflicts = <<>>
        /\ ~prompted
        /\ merged = IF impl = "engine" THEN EngineMergeMode(source, target)
                    ELSE V2AddMissing(source, target)

\* C10 witness: a smart merge of two non-empty collections with disjoint names.
C10_Witness ==
    /\ impl = "engine"
    /\ mode = "smart"
    /\ DOMAIN source # {}
    /\ DOMAIN target # {}
    /\ DOMAIN source \cap DOMAIN target = {}
    /\ DOMAIN merged = ServerNames

-----------------------------------------------------------------------------
(* Properties of the persisted collection (checked under SpecSave).         *)

\* the world the latest operation started from
PreWorld == [World EXCEPT !.cli = lastOp.preCli, !.conf = lastOp.preConf]

\* what the CLI holds when every removal and addition of the save took effect
CompleteCli(listOk) ==
    _save_claude_code_config(PreWorld, lastOp.saved, listOk, NoFaults, NoFaults).cli

\* the document that holds the complete collection being saved
CompleteDoc ==
    IF app = "intellij" THEN XmlDoc(lastOp.saved)
    ELSE JsonDoc(lastOp.saved,
                 IF lastOp.preConf.exists /\ lastOp.preConf.doc.fmt = "json"
                 THEN lastOp.preConf.doc.other ELSE {})

\* C11: after any save to a target, successful or failed, the target holds
\* either exactly its pre-save collection or the complete collection being
\* saved, never a state in which only some of the save's removals or additions
\* have taken effect (nor a document whose content was written in part).
C11_NeverPartiallyPersisted ==
    lastOp.op = "save_mcp_config" =>
        IF app = "claude_code"
        THEN cli = lastOp.preCli \/ \E listOk \in BOOLEAN : cli = CompleteCli(listOk)
        ELSE \/ conf.exists = lastOp.preConf.exists /\ conf.doc = lastOp.preConf.doc
             \/ conf.exists /\ conf.doc = CompleteDoc

\* two entries with the same command, ordered arguments and environment
Identical(c1, c2) ==
    c1.command = c2.command /\ c1.args = c2.args /\ c1.env = c2.env

\* C12: after a save to the CLI-managed target no two entries with different
\* names but identical command, arguments and environment both remain in the
\* target: of a new entry and an existing entry, or of two entries of the save,
\* that share that identity only one survives.
C12_IdenticalEntriesSuppressed ==
    (lastOp.op = "save_mcp_config" /\ app = "claude_code" /\ lastOp.result = "true") =>
        \A n, m \in DOMAIN cli : n # m => ~Identical(cli[n], cli[m])

\* the latest operation saved a collection to a JSON application whose
\* existing document was well-formed
JsonSaveOverWellFormed ==
    /\ app \in JsonApps
    /\ lastOp.op \in {"save_mcp_config", "remove_all_mcp_servers"}
    /\ lastOp.preConf.exists
    /\ lastOp.preConf.doc.fmt = "json"

C14_SaveLoadRoundTrip ==
    (lastOp.op = "load_mcp_config" /\ lastOp.afterSave /\ app \in FileApps) =>
        /\ ~loaded.absent
        /\ loaded.servers = lastOp.saved

-----------------------------------------------------------------------------
(* Properties of loads and synchronisations (checked under SpecSync).       *)

\* the document the latest operation found is malformed
FoundMalformed == lastOp.preConf.exists /\ lastOp.preConf.doc.fmt = "bad"

C20_ConflictPendingOutcome ==
    (lastOp.op = "sync_mcp_servers" /\ mode = "smart" /\ conflicts # <<>>) =>
        lastOp.result = "conflict_pending"

-----------------------------------------------------------------------------
(* Properties of the CLI adapter (checked under SpecCli).                   *)

CliSave == lastOp.op = "save_mcp_config" /\ app = "claude_code"

\* the names of the saved collection the addition loop has to add, in order
DueNames ==
    LET dups == _find_duplicates(lastOp.existing, lastOp.saved)
    IN  SelectSeq(Keys(lastOp.saved),
                  LAMBDA n : /\ ~_server_exists_in_target(n, lastOp.saved[n],
                                                          lastOp.existing, dups)
                             /\ ArgDashM \notin Range(lastOp.saved[n].args))

\* events that end a save
Aborts == {"add_failed", "add_timeout", "remove_timeout"}

\* C16: during the addition phase of a CLI-managed save an 'add' that exits
\* non-zero with "already exists" is only a warning and the save continues
\* with the remaining entries (an add is issued for every entry due, and the
\* save reports success unless something else fails); any other non-zero exit
\* aborts the save at that entry: no further 'add' is issued and the save
\* reports failure.
C16_AddErrorHandling ==
    CliSave =>
        /\ \A i \in 1..Len(oplog) :
              oplog[i] = "add_failed" =>
                  /\ i = Len(oplog)
                  /\ lastOp.result = "false"
                  /\ lastOp.issued = SubSeq(DueNames, 1, Len(lastOp.issued))
                  /\ lastOp.issued[Len(lastOp.issued)] \notin lastOp.added
        /\ (/\ \E i \in 1..Len(oplog) : oplog[i] = "add_exists"
            /\ \A i \in 1..Len(oplog) : oplog[i] \notin Aborts) =>
              /\ lastOp.result = "true"
              /\ lastOp.issued = DueNames

\* C16 witness: the first add was answered "already exists", the add of the
\* next entry was still issued and succeeded, and the save reported success.
C16_Witness ==
    /\ CliSave
    /\ lastOp.result = "true"
    /\ Len(lastOp.issued) = 2
    /\ lastOp.issued[1] \notin lastOp.added
    /\ lastOp.issued[2] \in lastOp.added
    /\ \E i \in 1..Len(oplog) : oplog[i] = "add_exists"

\* C17: for every entry added to the CLI-managed target that carries a
\* non-empty environment mapping a wrapper script is written that exports
\* every variable of the mapping and then execs the original command with the
\* cleaned arguments, and the 'add' registers the wrapper path as the command,
\* never the raw command; an entry without environment variables is added
\* with its raw command and cleaned arguments.
C17_WrapperForEnvironment ==
    CliSave =>
        \A n \in lastOp.added :
            LET config == lastOp.saved[n]
            IN  /\ n \in DOMAIN cli
                /\ IF config.env # {}
                   THEN /\ n \in DOMAIN wrappers
                        /\ wrappers[n].exports = config.env
                        /\ wrappers[n].command = config.command
                        /\ wrappers[n].args = _clean_args(config.args)
                        /\ cli[n].command = WrapperPath(n)
                        /\ cli[n].command # config.command
                        /\ cli[n].args = <<>>
                   ELSE /\ cli[n].command = config.command
                        /\ cli[n].args = _clean_args(config.args)

\* C17 witness: one save added an entry with an environment (through its
\* wrapper) and an entry without, both with arguments that had to be cleaned.
C17_Witness ==
    /\ CliSave
    /\ lastOp.added = {"a", "b"}
    /\ lastOp.saved["a"].env # {}
    /\ lastOp.saved["b"].env = {}
    /\ _clean_args(lastOp.saved["a"].args) # lastOp.saved["a"].args
    /\ cli["a"].command = WrapperPath("a")
    /\ wrappers["a"].args = <<Arg1>>
    /\ cli["b"] = Registered("uvx", <<Arg2>>)

ListEvents == {"list_ok", "list_fail", "list_timeout"}

\* C19: loading the CLI-managed target issues the 'list' command once; a
\* non-zero exit or a timeout makes load return 'absent' without raising and
\* without invoking the command again.
C19_ListOnceAbsentOnFailure ==
    (lastOp.op = "load_mcp_config" /\ app = "claude_code") =>
        /\ Cardinality({i \in 1..Len(oplog) : oplog[i] \in ListEvents}) = 1
        /\ lastOp.result \in {"loaded", "absent"}
        /\ oplog[1] \in {"list_fail", "list_timeout"} =>
              /\ lastOp.result = "absent"
              /\ loaded.absent
        /\ oplog[1] = "list_ok" => loaded = Loaded(cli)

\* C19 witness: the list command timed out while entries are registered, and
\* the load returned absent.
C19_Witness ==
    /\ lastOp.op = "load_mcp_config"
    /\ app = "claude_code"
    /\ oplog = <<"list_timeout">>
    /\ DOMAIN cli # {}
    /\ loaded.absent

-----------------------------------------------------------------------------
(* Properties of the deferred resolution (checked under SpecConflict).      *)

\* positions of the block headers of the document
Headers == {i \in 1..Len(cdoc) : cdoc[i].kind = "server"}

\* positions of the uncommented KEEP: lines of the block headed at i
Directives(i) ==
    {j \in (i + 1)..Len(cdoc) :
        /\ cdoc[j].kind \in {"keep", "indented"}
        /\ \A k \in (i + 1)..j : cdoc[k].kind # "server"}

Max(S) == CHOOSE x \in S : \A y \in S : y <= x

\* C18: parsing the deferred-conflict document yields at most one resolution
\* per conflict block: when a block contains several uncommented KEEP: lines
\* the last one is the block's resolution, a commented '# KEEP:' line is never
\* taken as a directive, and a block without an uncommented KEEP: line yields
\* no resolution for its name.
C18_LastDirectiveWins ==
    lastOp.op = "parse_conflict_file" =>
        /\ DOMAIN parsed \subseteq {<<cdoc[i].val>> : i \in Headers}
        /\ \A i \in Headers :
              IF Directives(i) = {}
              THEN <<cdoc[i].val>> \notin DOMAIN parsed
              ELSE /\ <<cdoc[i].val>> \in DOMAIN parsed
                   /\ parsed[<<cdoc[i].val>>] = ChoiceText(cdoc[Max(Directives(i))].val)

\* C18 witness: one block with two uncommented directives that disagree
\* (the last one taken), another block with commented directives only (no
\* resolution).
C18_Witness ==
    /\ lastOp.op = "parse_conflict_file"
    /\ \E i, k \in Headers :
          /\ Cardinality(Directives(i)) = 2
          /\ \E j \in Directives(i) : cdoc[j].val # cdoc[Max(Directives(i))].val
          /\ parsed[<<cdoc[i].val>>] = ChoiceText(cdoc[Max(Directives(i))].val)
          /\ Directives(k) = {}
          /\ \E j \in (k + 1)..Len(cdoc) : cdoc[j].kind = "commented"
          /\ DOMAIN parsed = {<<cdoc[i].val>>}

-----------------------------------------------------------------------------
(* Further properties of the merge engine (checked under SpecMerge).        *)

\* C21: under the 'smart' policy every source entry whose name is absent from
\* target is present in the merged collection with its source value,
\* unconditionally: whatever resolutions are supplied, including a resolution
\* (source or target) that names such an entry.
C21_AbsentNamesMerged ==
    (impl = "individual" \/ (impl \in {"engine", "v2"} /\ mode = "smart")) =>
        \A n \in DOMAIN source \ DOMAIN target :
            /\ n \in DOMAIN merged
            /\ merged[n] = source[n]

\* C29: the two merge implementations, SyncEngine.sync_mcp_servers and
\* SyncManagerV2.sync_mcp_servers, compute the same merged collection for every
\* source, every target, each of the three policies and the same conflict
\* choices: whichever of the two ran, the other one yields the collection
\* that was computed.
C29_ImplementationsAgree ==
    impl \in {"engine", "v2"} =>
        /\ merged = EngineApplyMode(source, target, mode, choice, answers)
        /\ merged = V2ApplyMode(source, target, mode, choice, answers)

-----------------------------------------------------------------------------
(* Further properties of the CLI-managed save.                              *)

\* an existing entry is a duplicate of some new entry: same name, or same
\* (command, argument set, environment)
IsDuplicate(e, existing, new_servers) ==
    \E n \in DOMAIN new_servers : e = n \/ SameIdentity(new_servers[n], existing[e])

\* C22: duplicate detection of a CLI-managed save schedules for removal every
\* existing entry that is a duplicate of some new entry (its name equals the
\* new entry's name, or its command, argument set and environment equal the
\* new entry's); no existing entry matching either way is left out.
C22_EveryDuplicateScheduled ==
    CliSave =>
        \A e \in DOMAIN lastOp.existing :
            IsDuplicate(e, lastOp.existing, lastOp.saved) =>
                e \in Range(_find_duplicates(lastOp.existing, lastOp.saved))

\* the invocations of `claude mcp remove` of the last operation
RemoveEvents ==
    SelectSeq(oplog, LAMBDA e : e \in {"remove", "remove_failed", "remove_timeout"})

\* C23: if a 'remove' invocation fails during the removal phase of a
\* CLI-managed save (non-zero exit or timeout), the failure is only a warning:
\* the remaining removals and the whole addition phase are still executed (a
\* remove is issued for every scheduled duplicate, an add for every entry due)
\* and the save is not reported as failed because of it.
C23_RemoveFailureIsWarning ==
    (/\ CliSave
     /\ \E i \in 1..Len(oplog) : oplog[i] \in {"remove_failed", "remove_timeout"}
     /\ \A i \in 1..Len(oplog) : oplog[i] \notin {"add_failed", "add_timeout"}) =>
        /\ Len(RemoveEvents) = Len(_find_duplicates(lastOp.existing, lastOp.saved))
        /\ lastOp.issued = DueNames
        /\ lastOp.result = "true"

RemoveAllCli == lastOp.op = "remove_all_mcp_servers" /\ app = "claude_code"

\* C24: removing all entries from the CLI-managed target issues 'remove' for
\* every currently listed entry and then deletes the wrapper-script directory
\* if it is present; the failure of any single removal is a warning, the
\* remaining removals and the directory deletion still happen, and the
\* operation completes with success.  (Stated for the runs in which the
\* backup did not raise and the deletion of the directory itself did not
\* fail.)
C24_RemoveAllCompletes ==
    (/\ RemoveAllCli
     /\ lastOp.result # "raised"
     /\ \A i \in 1..Len(oplog) : oplog[i] # "rmtree_failed") =>
        /\ Len(RemoveEvents) = Cardinality(DOMAIN lastOp.existing)
        /\ wrappers = NoWrappers
        /\ lastOp.result = "true"

-----------------------------------------------------------------------------
(* Properties of the YAML master document (checked under SpecMaster).       *)

\* s with every ${VAR} whose VAR is set replaced by the value of VAR, and
\* every other placeholder left as it is
RECURSIVE Substitute(_, _)
Substitute(s, env) ==
    IF s = <<>> THEN <<>>
    ELSE IF StartsWith(s, <<"$", "{">>) /\ "}" \in Range(s)
    THEN LET name == UpTo(SubSeq(s, 3, Len(s)), <<"}">>)
             rest == SubSeq(s, Len(name) + 4, Len(s))
         IN  (IF name \in DOMAIN env THEN env[name] ELSE SubSeq(s, 1, Len(name) + 3))
                 \o Substitute(rest, env)
    ELSE <<Head(s)>> \o Substitute(Tail(s), env)

\* the document with Substitute applied to every string in it
RECURSIVE SubstituteAll(_, _)
SubstituteAll(obj, env) ==
    IF obj.t = "str" THEN MStr(Substitute(obj.v, env))
    ELSE [t |-> obj.t, v |-> [k \in DOMAIN obj.v |-> SubstituteAll(obj.v[k], env)]]

\* C25: loading the YAML master document replaces every ${VAR} placeholder
\* occurring anywhere in the document (mapping values, list items such as
\* arguments, placeholders embedded inside a longer string) with the value of
\* VAR from the process environment, and leaves a placeholder whose variable
\* is unset as its literal text without failing.
C25_PlaceholdersExpandedEverywhere ==
    master.exists =>
        /\ expanded.result # "raised"
        /\ expanded.result = "loaded" =>
              expanded.doc = SubstituteAll(master.doc, environ)

-----------------------------------------------------------------------------
(* Further properties of the synchronisation (checked under SpecSync).      *)

\* C26: a sync whose source collection is absent (the load failed) or empty
\* returns failure and leaves the target untouched: no backup is created, no
\* file is written and no external command is issued, for every policy
\* including 'replace'.
C26_NothingToSync ==
    (lastOp.op = "sync_mcp_servers" /\ DOMAIN source = {}) =>
        /\ lastOp.result = "false"
        /\ oplog = <<>>
        /\ lastOp.backupTs = -1
        /\ conf = lastOp.preConf
        /\ cli = lastOp.preCli

\* C26 witness: a 'replace' sync of an empty source into a target that holds
\* entries failed and the entries are still there.
C26_Witness ==
    /\ lastOp.op = "sync_mcp_servers"
    /\ DOMAIN source = {}
    /\ mode = "replace"
    /\ lastOp.result = "false"
    /\ lastOp.hadContent
    /\ \/ DOMAIN cli # {}
       \/ conf.exists /\ conf.doc.fmt # "bad" /\ DOMAIN conf.doc.servers # {}

\* an operation that saves a collection to the CLI-managed target
CliWrite ==
    app = "claude_code" /\ lastOp.op \in {"save_mcp_config", "sync_mcp_servers"}

\* C27: a save to the CLI-managed target never removes an existing entry that
\* neither shares a name with a new entry nor was selected as its identity
\* duplicate: such entries are still listed, unchanged, after the save (so
\* after a 'replace' sync the target is a superset of the source rather than
\* equal to it).
C27_UnrelatedEntriesKept ==
    CliWrite =>
        \A e \in DOMAIN lastOp.preCli :
            (/\ e \notin DOMAIN lastOp.saved
             /\ e \notin Range(_find_duplicates(lastOp.existing, lastOp.saved))) =>
                /\ e \in DOMAIN cli
                /\ cli[e] = lastOp.preCli[e]

\* C27 witness: a successful 'replace' sync left the target with every name
\* of the source and with an entry the source does not have.
C27_Witness ==
    /\ app = "claude_code"
    /\ lastOp.op = "sync_mcp_servers"
    /\ mode = "replace"
    /\ lastOp.result = "true"
    /\ DOMAIN source # {}
    /\ DOMAIN source \subseteq DOMAIN cli
    /\ \E e \in DOMAIN cli \ DOMAIN source :
          /\ e \in DOMAIN lastOp.preCli
          /\ e \in DOMAIN lastOp.existing
          /\ cli[e] = lastOp.preCli[e]

\* every external command of the last operation succeeded: the list showed
\* what is registered and no remove or add was refused, failed or timed out
AllCommandsSucceeded ==
    /\ lastOp.existing = lastOp.preCli
    /\ \A i \in 1..Len(oplog) :
          oplog[i] \notin {"remove_failed", "remove_timeout", "add_exists",
                           "add_failed", "add_timeout"}

\* C28: after a save to the CLI-managed target that reports success with
\* every external command succeeding, every name of the saved collection is
\* listed in the target; in particular every entry removed in the removal
\* phase as a duplicate is re-added in the addition phase (also when its
\* arguments contain a flag the adapter skips, such as -m).
C28_SavedNamesListed ==
    (CliSave /\ lastOp.result = "true" /\ AllCommandsSucceeded) =>
        DOMAIN lastOp.saved \subseteq DOMAIN cli

-----------------------------------------------------------------------------
(* Further properties of the conflict document (checked under SpecConflict). *)

\* the length of the longest document written
LongestDocLen == Len(create_conflict_file(<<"a", "b">>))

\* the documents create_conflict_file writes with exactly one of the
\* generated directive lines uncommented: <<document, name, choice>>
OneUncommented ==
    {<<[create_conflict_file(cs) EXCEPT ![j].kind = k],
       create_conflict_file(cs)[i].val,
       create_conflict_file(cs)[j].val>> :
        <<cs, i, j, k>> \in
            {x \in ConflictLists \X (1..LongestDocLen) \X (1..LongestDocLen)
                                \X {"keep", "indented"} :
                LET d == create_conflict_file(x[1])
                IN  /\ x[2] <= Len(d) /\ x[3] <= Len(d) /\ x[2] < x[3]
                    /\ d[x[2]].kind = "server"
                    /\ d[x[3]].kind = "commented"
                    /\ \A m \in (x[2] + 1)..x[3] : d[m].kind # "server"}}

\* C30: writing the deferred-conflict document for any conflict list and
\* parsing it back without any edit yields the empty resolution set (both
\* generated KEEP lines of every block are commented); after uncommenting
\* exactly one KEEP line in one block the parse yields exactly one resolution,
\* for that block's entry name with that line's choice; and writing always
\* replaces the previous document at the single fixed path.
C30_WriteThenParse ==
    /\ lastOp.op = "create_conflict_file" =>
          /\ cdoc = create_conflict_file(conflicts)
          /\ cfile = Render(cdoc)
    /\ lastOp.op = "parse_conflict_file" =>
          /\ (\E cs \in ConflictLists : cdoc = create_conflict_file(cs)) =>
                parsed = <<>>
          /\ \A u \in OneUncommented :
                cdoc = u[1] =>
                    /\ DOMAIN parsed = {<<u[2]>>}
                    /\ parsed[<<u[2]>>] = ChoiceText(u[3])

\* C30 witness: in a document written for two conflicts exactly one generated
\* directive was uncommented, and the parse returned that block's name with
\* that choice and nothing for the other block.
C30_Witness ==
    /\ lastOp.op = "parse_conflict_file"
    /\ Len(conflicts) = 2
    /\ cdoc # create_conflict_file(conflicts)
    /\ \E u \in OneUncommented :
          /\ cdoc = u[1]
          /\ parsed = [n \in {<<u[2]>>} |-> ChoiceText(u[3])]

====
